---- MODULE Spec2Model ----
(***************************************************************************)
(* Request lifecycle of the EasyForm backend: admission of an analysis     *)
(* request (POST /form/analyze/async), the background pipeline task        *)
(* (process_form_analysis_async), deletion with cooperative cancellation   *)
(* (DELETE /form/request/{id}) and the scheduled cleanup job, over the     *)
(* form_requests / form_request_progress / form_actions tables and the     *)
(* in-process task registry.                                               *)
(*                                                                         *)
(* Every await of the code is a point where another coroutine may run.     *)
(* A database statement (select, commit) is atomic.  A step of the model   *)
(* is the code between two awaits whose effects other coroutines can see.  *)
(***************************************************************************)
EXTENDS Integers, Sequences, FiniteSets, TLC

\* ------------------------------------------------------------------ bounds

\* Number of POST /form/analyze/async calls; call h creates request id h
\* (uuid4 ids are fresh, so the id of a row is the call that created it).
MaxRequests == 2

\* Number of admission calls in TrackedSpec.
MaxTracked == 1

\* Largest length of the list the parser agent returns.
MaxFields == 1

\* The clock advances in steps of TickHours up to MaxClock (hours); one step
\* is longer than the cleanup age, so a row of an earlier step has expired.
TickHours == 25
MaxClock == 25

\* Largest number of questions handed to generate_solutions_per_question.
MaxQuestions == 11

\* Largest number of progress events of one request.
MaxEvents == 3

\* Largest number of actions in a generator result.
MaxActions == 2

\* Largest number of chunks the document processor makes of one file.
MaxChunks == 1

\* Largest number of results of one collection query (top_k).
TopK == 1
\* Questions of one form in the assembly of the phases' outputs.
MaxGathered == 3
\* Largest max_retries a caller of an agent's run passes.
MaxRetries == 2

\* ------------------------------------------------------------------ constants

\* cleanup_old_form_requests calls cleanup_old_requests(db, hours=24).
CleanupHours == 24

\* semaphore = asyncio.Semaphore(10)
SemaphoreWidth == 10

\* generate_actions_from_solutions(..., batch_size: int = 10)
BatchSize == 10

Users == {"u1", "u2"}
FirstUser == "u1"
Requests == 1 .. MaxRequests

\* NULL of a nullable column (started_at, completed_at, fields_detected).
Null == 0 - 1

\* The status column's enum, in declaration order.
StatusOrder == <<"pending", "processing", "processing_step_1", "processing_step_2", "completed", "failed">>
Statuses == {StatusOrder[i] : i \in 1 .. Len(StatusOrder)}

\* The statuses the data model calls active (spec section 3); the admission
\* check of the code uses CheckedStatuses below.
ActiveStatuses == {"pending", "processing", "processing_step_1", "processing_step_2"}
TerminalStatuses == {"completed", "failed"}

\* get_active_request_for_user: FormRequest.status.in_(["pending", "processing"])
CheckedStatuses == {"pending", "processing"}

\* error_message values
NoError == "none"
ParseFailedMsg == "Failed to parse form structure"
UserLookupMsg == "str(e): user lookup"
ParserRaisedMsg == "str(e): parser agent"
AttributeErrorMsg == "'RAGService' object has no attribute 'should_use_rag'"

VARIABLES
    now,        \* datetime.now(timezone.utc), in hours
    rows,       \* table form_requests: request id -> row, for the ids that have a row
    progress,   \* table form_request_progress: request id -> events in id order
    actions,    \* table form_actions: request id -> rows in id order
    adm,        \* the analyze_form_async calls: position, user, response
    task,       \* the asyncio tasks running process_form_analysis_async
    registry,   \* keys of _active_analysis_tasks
    del,        \* the delete_request calls: position, user, response
    qtasks,     \* the process_question tasks of one solver call: how many at each position
    semaphore,  \* the value of the solver call's semaphore
    call,       \* the generate_solutions_per_question call: position, len(questions)
    reported,   \* number of progress_callback invocations that returned
    generated,  \* what generate_actions_from_solutions returned
    up,         \* the application is inside lifespan's yield
    listed,     \* what the last list_progress_events call returned: request, event ids
    ext         \* the calls and stores outside the request lifecycle and the solver:
                \* ext.calls of post-processing, ext.rag of ingestion and retrieval

vars == <<now, rows, progress, actions, adm, task, registry, del>>

\* The state of the agent service's phase 2 and phase 3 calls.
svars == <<qtasks, semaphore, call, reported, generated>>

\* The post-processing calls.
\* The map_action_type call: input, result, result mapped again.
typed == ext.calls.typed
\* The run of the save block on a generator result.
post == ext.calls.post
\* The optimize_actions call: input and result.
optimized == ext.calls.optimized

\* Document ingestion and retrieval.
\* The singleton _rag_service.
rag_service == ext.rag.rag_service
\* Table files: which uploads have a row.
files == ext.rag.files
\* The process_file_for_rag background tasks.
ingest == ext.rag.ingest
\* The cleanup_rag_data background tasks.
rag_cleanup == ext.rag.rag_cleanup
\* Table document_chunks.
document_chunks == ext.rag.document_chunks
\* The ChromaDB text collection: id and metadata of each entry.
text_collection == ext.rag.text_collection
\* The ChromaDB image collection.
image_collection == ext.rag.image_collection
\* The retrieve_relevant_context call: what was hit and returned.
retrieved == ext.rag.retrieved

\* The three phases of one analysis and what they return.
assembly == ext.assembly

\* One call of an agent's run.
agent == ext.agent

\* Every variable.
allvars == <<vars, svars, up, listed, ext>>

\* ------------------------------------------------------------------ tables

Exists(r) == r \in DOMAIN rows

\* FormRequest(id, user_id, status="pending", created_at=now)
NewRow(u, t) ==
    [user |-> u, status |-> "pending", created_at |-> t, started_at |-> Null,
     completed_at |-> Null, fields_detected |-> Null, error_message |-> NoError]

\* status.startswith("processing")
StartsWithProcessing(s) == s \in {"processing", "processing_step_1", "processing_step_2"}

\* update_form_request_status stamping completed_at for "completed" alone.
UpdatedRowCompletedOnly(row, status, fields_detected, error_message, t) ==
    [row EXCEPT
        !.status = status,
        !.started_at = IF StartsWithProcessing(status) /\ row.started_at = Null THEN t ELSE @,
        !.completed_at = IF status = "completed" THEN t ELSE @,
        !.fields_detected = IF fields_detected # Null THEN fields_detected ELSE @,
        !.error_message = IF error_message # NoError THEN error_message ELSE @]

\* The row update_form_request_status writes.
UpdatedRow(row, status, fields_detected, error_message, t) ==
    [row EXCEPT
        !.status = status,
        !.started_at = IF StartsWithProcessing(status) /\ row.started_at = Null THEN t ELSE @,
        !.completed_at = IF status \in {"completed", "failed"} THEN t ELSE @,
        !.fields_detected = IF fields_detected # Null THEN fields_detected ELSE @,
        !.error_message = IF error_message # NoError THEN error_message ELSE @]

\* A status update that writes a row when it finds none.
UpdateStatusOrInsert(tbl, r, status, fields_detected, error_message, t) ==
    [x \in (DOMAIN tbl) \cup {r} |->
        IF x = r
        THEN UpdatedRow(IF r \in DOMAIN tbl THEN tbl[r] ELSE NewRow(FirstUser, t),
                        status, fields_detected, error_message, t)
        ELSE tbl[x]]

\* update_form_request_status: nothing is written when the row is not found.
UpdateStatus(tbl, r, status, fields_detected, error_message, t) ==
    IF r \in DOMAIN tbl
    THEN [tbl EXCEPT ![r] = UpdatedRow(tbl[r], status, fields_detected, error_message, t)]
    ELSE tbl

\* The rows left when the rows of the ids in S are deleted.
WithoutRows(tbl, S) == [r \in (DOMAIN tbl) \ S |-> tbl[r]]

\* A child table whose foreign key has no ON DELETE CASCADE.
NoCascade(child, S) == child

\* ON DELETE CASCADE of form_request_progress.request_id and form_actions.request_id.
Cascade(child, S) == [r \in Requests |-> IF r \in S THEN <<>> ELSE child[r]]

\* get_active_request_for_user's query: the user's rows in a checked status.
ActiveMatches(u) == {r \in DOMAIN rows : rows[r].user = u /\ rows[r].status \in CheckedStatuses}

\* ------------------------------------------------------------------ initial state

IdleAdm == [pc |-> "idle", user |-> "u1", resp |-> "none", rivals |-> {}]
NoTask == [state |-> "none", pc |-> "start", must_cancel |-> FALSE,
           parser |-> [kind |-> "none", n |-> 0], exc |-> NoError]
IdleDel == [pc |-> "idle", user |-> "u1", resp |-> "none"]

\* ------------------------------------------------------------------ clock

Tick ==
    /\ now + TickHours <= MaxClock
    /\ now' = now + TickHours
    /\ UNCHANGED <<rows, progress, actions, adm, task, registry, del, svars, up, listed, ext>>

\* ------------------------------------------------------------------ admission

\* analyze_form_async up to the insert: the active-request check.
\* scalar_one_or_none raises MultipleResultsFound on more than one match,
\* which leaves the handler as an internal server error.
CheckResponse(u) ==
    IF Cardinality(ActiveMatches(u)) > 1 THEN "500"
    ELSE IF ActiveMatches(u) # {} THEN "409"
    ELSE "none"

\* Calls are numbered in order of arrival, and the first caller is FirstUser
\* (user ids are opaque, so which user calls first makes no difference).
AdmitCheck(h, u) ==
    /\ adm[h].pc = "idle"
    /\ \A k \in 1 .. (h - 1) : adm[k].pc # "idle"
    /\ h = 1 => u = FirstUser
    /\ adm' = [adm EXCEPT ![h] =
                 [pc |-> IF CheckResponse(u) = "none" THEN "checked" ELSE "done",
                  user |-> u, resp |-> CheckResponse(u), rivals |-> {}]]
    /\ UNCHANGED <<now, rows, progress, actions, task, registry, del, svars, up, listed, ext>>

\* create_form_request: the row and its first progress event in one commit.
CreateFormRequest(h, u) ==
    /\ rows' = [r \in (DOMAIN rows) \cup {h} |-> IF r = h THEN NewRow(u, now) ELSE rows[r]]
    /\ progress' = [progress EXCEPT ![h] = <<[stage |-> "queued", created_at |-> now]>>]

\* schedule_form_analysis_task: create the task and register it.
ScheduleTask(h) ==
    /\ task' = [task EXCEPT ![h] = [NoTask EXCEPT !.state = "active"]]
    /\ registry' = registry \cup {h}

\* analyze_form_async after a passed check: insert, schedule, 202.
\* rivals records the calls of the same user that had passed their check
\* and not yet inserted when this call inserted.
AdmitInsert(h) ==
    /\ adm[h].pc = "checked"
    /\ CreateFormRequest(h, adm[h].user)
    /\ ScheduleTask(h)
    /\ adm' = [adm EXCEPT ![h] =
                 [pc |-> "done", user |-> adm[h].user, resp |-> "202",
                  rivals |-> {k \in Requests \ {h} :
                                 adm[k].pc = "checked" /\ adm[k].user = adm[h].user}]]
    /\ UNCHANGED <<now, actions, del, svars, up, listed, ext>>

\* ------------------------------------------------------------------ pipeline

\* What parse_form_structure returns: StructuredAgent.run's error dictionary,
\* the validated HtmlFormParserOutput dump (its only key is "questions"), or,
\* when validation fails, the raw JSON of the model, which may carry "fields".
ParserResults ==
    {[kind |-> "error", n |-> 0]}
    \cup {[kind |-> "questions", n |-> k] : k \in 0 .. MaxFields}
    \cup {[kind |-> "fields", n |-> k] : k \in 0 .. MaxFields}

\* not parser_result or "fields" not in parser_result
ParserInvalid(res) == res.kind # "fields"

\* A task that goes on after Task.cancel().
RunnableIgnoringCancel(r) == task[r].state = "active"

\* A task runs its next piece of code unless a cancellation is pending:
\* Task.cancel() makes the next resumption raise CancelledError.
Runnable(r) == task[r].state = "active" /\ ~task[r].must_cancel

\* Lines 650-671: sanitise the inputs, read the personal instructions,
\* status -> processing_step_1.
StartPipeline(r) ==
    /\ Runnable(r) /\ task[r].pc = "start"
    /\ rows' = UpdateStatus(rows, r, "processing_step_1", Null, NoError, now)
    /\ task' = [task EXCEPT ![r].pc = "parse"]
    /\ UNCHANGED <<now, progress, actions, adm, registry, del, svars, up, listed, ext>>

\* Lines 665-666: opening the session or reading the user raises.
StartRaises(r) ==
    /\ Runnable(r) /\ task[r].pc = "start"
    /\ task' = [task EXCEPT ![r].pc = "handler", ![r].exc = UserLookupMsg]
    /\ UNCHANGED <<now, rows, progress, actions, adm, registry, del, svars, up, listed, ext>>

\* The parser result handled without the return after the empty-list case.
AfterParseNoReturn(res) ==
    IF ParserInvalid(res) THEN "exit"
    ELSE "phase2"

\* The position after the parser result has been handled (lines 714-757).
AfterParse(res) ==
    IF ParserInvalid(res) THEN "exit"
    ELSE IF res.n = 0 THEN "exit"
    ELSE "phase2"

\* The parser result handled without fields_detected=0 in the empty-list case.
ParseWriteNoCount(tbl, r, res, t) ==
    IF ParserInvalid(res) THEN UpdateStatus(tbl, r, "failed", Null, ParseFailedMsg, t)
    ELSE IF res.n = 0 THEN UpdateStatus(tbl, r, "completed", Null, NoError, t)
    ELSE tbl

\* The status write that handles the parser result (lines 714-735).
ParseWrite(tbl, r, res, t) ==
    IF ParserInvalid(res) THEN UpdateStatus(tbl, r, "failed", Null, ParseFailedMsg, t)
    ELSE IF res.n = 0 THEN UpdateStatus(tbl, r, "completed", 0, NoError, t)
    ELSE tbl

\* Lines 702-757: the parser agent returns.
ParseReturns(r, res) ==
    /\ Runnable(r) /\ task[r].pc = "parse"
    /\ rows' = ParseWrite(rows, r, res, now)
    /\ task' = [task EXCEPT ![r].pc = AfterParse(res), ![r].parser = res]
    /\ UNCHANGED <<now, progress, actions, adm, registry, del, svars, up, listed, ext>>

\* StructuredAgent.run re-raises the exception of its last attempt.
ParseRaises(r) ==
    /\ Runnable(r) /\ task[r].pc = "parse"
    /\ task' = [task EXCEPT ![r].pc = "handler", ![r].exc = ParserRaisedMsg]
    /\ UNCHANGED <<now, rows, progress, actions, adm, registry, del, svars, up, listed, ext>>

\* Lines 760-776: status -> processing_step_2, then rag_service.should_use_rag,
\* an attribute RAGService does not define: AttributeError.  Lines 778-889
\* (value generation, create_form_actions, completed with len(fields)) are
\* never reached.
Phase2(r) ==
    /\ Runnable(r) /\ task[r].pc = "phase2"
    /\ rows' = UpdateStatus(rows, r, "processing_step_2", Null, NoError, now)
    /\ task' = [task EXCEPT ![r].pc = "handler", ![r].exc = AttributeErrorMsg]
    /\ UNCHANGED <<now, progress, actions, adm, registry, del, svars, up, listed, ext>>

\* An except clause that logs the exception and writes nothing.
HandleExceptionLogOnly(r) ==
    /\ Runnable(r) /\ task[r].pc = "handler"
    /\ task' = [task EXCEPT ![r].pc = "exit", ![r].exc = NoError]
    /\ UNCHANGED <<now, rows, progress, actions, adm, registry, del, svars, up, listed, ext>>

\* Lines 894-907: except Exception: status -> failed, error_message = str(e).
HandleException(r) ==
    /\ Runnable(r) /\ task[r].pc = "handler"
    /\ rows' = UpdateStatus(rows, r, "failed", Null, task[r].exc, now)
    /\ task' = [task EXCEPT ![r].pc = "exit", ![r].exc = NoError]
    /\ UNCHANGED <<now, progress, actions, adm, registry, del, svars, up, listed, ext>>

\* A task that has ended: its frame (parser_result, the exception) is gone;
\* pc keeps the position at which it ended.
Ended(t, how) ==
    [state |-> how, pc |-> t.pc, must_cancel |-> FALSE,
     parser |-> [kind |-> "none", n |-> 0], exc |-> NoError]

\* A task that ends without the finally clause.
TaskExitKeepingEntry(r) ==
    /\ Runnable(r) /\ task[r].pc = "exit"
    /\ task' = [task EXCEPT ![r] = Ended(task[r], "done")]
    /\ UNCHANGED <<now, rows, progress, actions, adm, registry, del, svars, up, listed, ext>>

\* Lines 908-909 after a return or a handled exception: the finally clause.
TaskExit(r) ==
    /\ Runnable(r) /\ task[r].pc = "exit"
    /\ task' = [task EXCEPT ![r] = Ended(task[r], "done")]
    /\ registry' = registry \ {r}
    /\ UNCHANGED <<now, rows, progress, actions, adm, del, svars, up, listed, ext>>

\* CancelledError handled as the except Exception clause handles an error.
CancelledWriteFailed(tbl, r, t) == UpdateStatus(tbl, r, "failed", Null, "cancelled", t)

\* What the CancelledError clause writes to the request table: nothing
\* (lines 891-893 log and re-raise).
CancelledWrite(tbl, r, t) == tbl

\* Lines 891-893 and 908-909: CancelledError is raised at the await the task
\* is suspended on (or the task is cancelled before its first step), is
\* re-raised, and the finally clause runs.
TaskCancelled(r) ==
    /\ task[r].state = "active" /\ task[r].must_cancel
    /\ rows' = CancelledWrite(rows, r, now)
    /\ task' = [task EXCEPT ![r] = Ended(task[r], "cancelled")]
    /\ registry' = registry \ {r}
    /\ UNCHANGED <<now, progress, actions, adm, del, svars, up, listed, ext>>

\* ------------------------------------------------------------------ deletion

\* The query without its user_id filter.
OwnedByAnyone(r, u) == Exists(r)

\* get_form_request(db, request_id, user_id)
Owned(r, u) == Exists(r) /\ rows[r].user = u

\* A task taken to be done whatever its state.
TaskDoneAlways(r) == TRUE

\* task.done()
TaskDone(r) == task[r].state \in {"done", "cancelled"}

\* delete_request up to the await in cancel_form_analysis_task: 404 when the
\* caller owns no such row; else pop the registry entry and, for a task that
\* is not done, cancel it and wait for it.
DeleteStart(r, u) ==
    /\ del[r].pc = "idle"
    /\ adm[r].pc = "done" /\ adm[r].resp = "202"
    /\ IF ~Owned(r, u)
       THEN /\ del' = [del EXCEPT ![r] = [IdleDel EXCEPT !.resp = "404"]]
            /\ UNCHANGED <<task, registry>>
       ELSE /\ registry' = registry \ {r}
            /\ IF r \in registry /\ ~TaskDone(r)
               THEN /\ task' = [task EXCEPT ![r].must_cancel = TRUE]
                    /\ del' = [del EXCEPT ![r] = [pc |-> "awaiting", user |-> u, resp |-> "none"]]
               ELSE /\ UNCHANGED task
                    /\ del' = [del EXCEPT ![r] = [pc |-> "deleting", user |-> u, resp |-> "none"]]
    /\ UNCHANGED <<now, rows, progress, actions, adm, svars, up, listed, ext>>

\* cancel_form_analysis_task: await task returns when the task has ended.
DeleteAwait(r) ==
    /\ del[r].pc = "awaiting"
    /\ TaskDone(r)
    /\ del' = [del EXCEPT ![r].pc = "deleting"]
    /\ UNCHANGED <<now, rows, progress, actions, adm, task, registry, svars, up, listed, ext>>

\* delete_form_request, then 204.
DeleteRow(r) ==
    /\ del[r].pc = "deleting"
    /\ IF Owned(r, del[r].user)
       THEN /\ rows' = WithoutRows(rows, {r})
            /\ progress' = Cascade(progress, {r})
            /\ actions' = Cascade(actions, {r})
       ELSE UNCHANGED <<rows, progress, actions>>
    /\ del' = [del EXCEPT ![r] = [IdleDel EXCEPT !.resp = "204"]]
    /\ UNCHANGED <<now, adm, task, registry, svars, up, listed, ext>>

\* ------------------------------------------------------------------ cleanup

EveryRow(hours) == DOMAIN rows

\* FormRequest.created_at < now - timedelta(hours=hours)
Expired(hours) == {r \in DOMAIN rows : rows[r].created_at < now - hours}

\* cleanup_old_form_requests: the scheduled job.
Cleanup ==
    /\ Expired(CleanupHours) # {}
    /\ rows' = WithoutRows(rows, Expired(CleanupHours))
    /\ progress' = Cascade(progress, Expired(CleanupHours))
    /\ actions' = Cascade(actions, Expired(CleanupHours))
    /\ UNCHANGED <<now, adm, task, registry, del, svars, up, listed, ext>>

\* ------------------------------------------------------------------ progress log

\* Stage tags a caller of log_progress_event passes.
LoggedStages == {"parser_started", "solutions_progress"}

NothingListed == [request |-> 0, ids |-> <<>>]

\* log_progress_event: insert one event; its id is the next of the
\* auto-increment column, its created_at the column default.
LogProgressEvent(r, stage) ==
    /\ Exists(r) /\ Len(progress[r]) < MaxEvents
    /\ progress' = [progress EXCEPT ![r] = Append(@, [stage |-> stage, created_at |-> now])]
    /\ UNCHANGED <<now, rows, actions, adm, task, registry, del, svars, up, listed, ext>>

\* order_by(FormRequestProgress.created_at.asc()): the orders in which the
\* query may return the events (positions in id order); rows with equal
\* created_at come in an order the database chooses.
OrderedByCreatedAt(events) ==
    {ids \in [1 .. Len(events) -> 1 .. Len(events)] :
        /\ \A i, j \in 1 .. Len(events) : i # j => ids[i] # ids[j]
        /\ \A i, j \in 1 .. Len(events) :
              i < j => events[ids[i]].created_at <= events[ids[j]].created_at}

\* list_progress_events as get_request_status calls it.
ListProgressEvents(r, ids) ==
    /\ Exists(r)
    /\ listed' = [request |-> r, ids |-> ids]
    /\ UNCHANGED <<vars, svars, up, ext>>

\* ------------------------------------------------------------------ shutdown

\* lifespan after the yield: the scheduler is stopped; the pipeline tasks
\* and their requests are left as they are.
Shutdown ==
    /\ up
    /\ up' = FALSE
    /\ UNCHANGED <<vars, svars, listed, ext>>

\* ------------------------------------------------------------------ phase 2 solver

\* SolutionOutcomes: what the awaits inside process_question's try block end
\* with: StandardAgent.run returns {"status": "success", "output": ...} or
\* {"status": "error", "message": ...}, or the retrieval or the agent raises.
SolverOutcomes == {"success", "error", "raised"}

\* solution_text values
InitialSolution == "Error: Could not generate solution"
FailedSolution == "Error: Failed to generate solution"
AgentOutput == "output"

\* The process_question coroutines run the same code and differ by their
\* index alone, so the state keeps how many of them are at each position.
NewTask == [pc |-> "new", outcome |-> "none", success |-> FALSE, solution |-> InitialSolution]
Waiting == [NewTask EXCEPT !.pc = "waiting"]
Solving == [NewTask EXCEPT !.pc = "solving"]

\* Line 463: success = True once solution_agent.run has returned.
Succeeded(o) == o \in {"success", "error"}

\* Lines 445-450 and 483: the solution text after the try block.
SolutionText(o) ==
    IF o = "success" THEN AgentOutput
    ELSE IF o = "error" THEN InitialSolution
    ELSE IF o = "raised" THEN FailedSolution
    ELSE InitialSolution

\* A task in the finally clause, awaiting progress_callback; o = "cancelled"
\* when CancelledError left the try block.
Reporting(o) == [pc |-> "reporting", outcome |-> o, success |-> Succeeded(o), solution |-> SolutionText(o)]

\* A task that has ended, with the entry it returned.
Finished(o) == [Reporting(o) EXCEPT !.pc = "done"]

EndOutcomes == SolverOutcomes \cup {"cancelled"}
TaskKinds ==
    {NewTask, Waiting, Solving}
    \cup {Reporting(o) : o \in EndOutcomes} \cup {Finished(o) : o \in EndOutcomes}

RECURSIVE TotalOf(_, _)
TotalOf(f, S) ==
    IF S = {} THEN 0
    ELSE LET x == CHOOSE y \in S : TRUE IN f[x] + TotalOf(f, S \ {x})

\* Tasks inside "async with semaphore".
Inside == TotalOf(qtasks, {k \in TaskKinds : k.pc \in {"solving", "reporting"}})

\* Tasks that have ended.
FinishedCount == TotalOf(qtasks, {k \in TaskKinds : k.pc = "done"})

Move(a, b) == [qtasks EXCEPT ![a] = @ - 1, ![b] = @ + 1]

IdleCall == [state |-> "idle", n |-> 0, k |-> 0]
NoneGenerated == [state |-> "none", outs |-> <<>>, keys |-> {}, actions |-> 0]

\* generate_solutions_per_question(questions) with len(questions) = n, up to
\* "await asyncio.gather(*tasks)".
CallSolver(n) ==
    /\ call.state = "idle"
    /\ qtasks' = [k \in TaskKinds |-> IF k = NewTask THEN n ELSE 0]
    /\ semaphore' = SemaphoreWidth
    /\ call' = [state |-> "gathering", n |-> n, k |-> 0]
    /\ UNCHANGED <<reported, generated, vars, up, listed, ext>>

\* A semaphore that never blocks.
CanAcquireAlways == TRUE

\* Semaphore.acquire returns without waiting while the value is positive.
CanAcquire == semaphore > 0

\* Task.cancel() was called on the caller while it awaited gather, which
\* cancels every child that has not ended.
CancelPending == call.state = "cancelling"

\* Line 285, first step of a task: enter the semaphore or wait for it.
Enter ==
    /\ ~CancelPending /\ qtasks[NewTask] > 0
    /\ IF CanAcquire
       THEN qtasks' = Move(NewTask, Solving) /\ semaphore' = semaphore - 1
       ELSE qtasks' = Move(NewTask, Waiting) /\ UNCHANGED semaphore
    /\ UNCHANGED <<call, reported, generated, vars, up, listed, ext>>

\* A waiting task is woken by a release and takes the semaphore.
Acquire ==
    /\ ~CancelPending /\ qtasks[Waiting] > 0 /\ CanAcquire
    /\ qtasks' = Move(Waiting, Solving)
    /\ semaphore' = semaphore - 1
    /\ UNCHANGED <<call, reported, generated, vars, up, listed, ext>>

\* Lines 295-484: the try block ends with outcome o; the finally clause
\* builds the payload and awaits progress_callback.
SolverReturns(o) ==
    /\ ~CancelPending /\ qtasks[Solving] > 0
    /\ qtasks' = Move(Solving, Reporting(o))
    /\ UNCHANGED <<semaphore, call, reported, generated, vars, up, listed, ext>>

\* Lines 496 and 466-509: progress_callback returns, the task returns its
\* entry and leaves the semaphore.  A task whose try block was left by
\* CancelledError has consumed its cancellation and runs this step too.
Report(o) ==
    /\ qtasks[Reporting(o)] > 0
    /\ CancelPending => o = "cancelled"
    /\ qtasks' = Move(Reporting(o), Finished(o))
    /\ semaphore' = semaphore + 1
    /\ reported' = reported + 1
    /\ UNCHANGED <<call, generated, vars, up, listed, ext>>

\* Line 511: gather returns the entries when every task has ended.
GatherReturns ==
    /\ call.state = "gathering" /\ FinishedCount = call.n
    /\ call' = [call EXCEPT !.state = "returned"]
    /\ UNCHANGED <<qtasks, semaphore, reported, generated, vars, up, listed, ext>>

\* cancel_form_analysis_task while the caller awaits gather; k records how
\* many tasks had ended.
CancelCaller ==
    /\ call.state = "gathering"
    /\ call' = [call EXCEPT !.state = "cancelling", !.k = FinishedCount]
    /\ UNCHANGED <<qtasks, semaphore, reported, generated, vars, up, listed, ext>>

\* A cancelled task that never ran, or that waited for the semaphore: the
\* CancelledError is raised outside the try block.
CancelOutside(kind) ==
    /\ CancelPending /\ kind \in {NewTask, Waiting} /\ qtasks[kind] > 0
    /\ qtasks' = Move(kind, Finished("cancelled"))
    /\ UNCHANGED <<semaphore, call, reported, generated, vars, up, listed, ext>>

\* A cancelled task inside the try block: CancelledError is no Exception, so
\* the except clause is skipped and the finally clause runs.
CancelSolving ==
    /\ CancelPending /\ qtasks[Solving] > 0
    /\ qtasks' = Move(Solving, Reporting("cancelled"))
    /\ UNCHANGED <<semaphore, call, reported, generated, vars, up, listed, ext>>

\* A cancelled task awaiting progress_callback: the callback is interrupted.
CancelReporting(o) ==
    /\ CancelPending /\ o \in SolverOutcomes /\ qtasks[Reporting(o)] > 0
    /\ qtasks' = Move(Reporting(o), Finished("cancelled"))
    /\ semaphore' = semaphore + 1
    /\ UNCHANGED <<call, reported, generated, vars, up, listed, ext>>

\* The caller's await ends with CancelledError once every child has ended.
GatherCancelled ==
    /\ CancelPending /\ FinishedCount = call.n
    /\ call' = [call EXCEPT !.state = "cancelled"]
    /\ UNCHANGED <<qtasks, semaphore, reported, generated, vars, up, listed, ext>>

\* ------------------------------------------------------------------ phase 3 actions

\* What one process_batch ends with: action_agent.run returns a dictionary
\* with an actions list, returns its error dictionary, or raises.
BatchOutcomes == {"actions", "error", "raised"}

\* len(batches) for n question-solution pairs.
BatchCount(n) == (n + BatchSize - 1) \div BatchSize

\* Lines 709-744: a batch that raised yields {"actions": []}, a result
\* without "actions" is skipped; the number of combined actions when every
\* successful batch carries one action.
RECURSIVE CombinedActions(_)
CombinedActions(outs) ==
    IF outs = <<>> THEN 0
    ELSE (IF Head(outs) = "actions" THEN 1 ELSE 0) + CombinedActions(Tail(outs))

\* form_service.py 832: not generator_result or "actions" not in generator_result,
\* on the set of keys of the dictionary.
GeneratorInvalid(keys) == keys = {} \/ "actions" \notin keys

\* generate_actions_from_solutions over the returned entries: line 744
\* returns {"actions": combined_actions}.
GenerateActions(outs) ==
    /\ call.state = "returned" /\ generated.state = "none"
    /\ generated' = [state |-> "returned", outs |-> outs, keys |-> {"actions"},
                     actions |-> CombinedActions(outs)]
    /\ UNCHANGED <<qtasks, semaphore, call, reported, vars, up, listed, ext>>

\* ------------------------------------------------------------------ post-processing

NothingTyped == [input |-> "none", once |-> "none", twice |-> "none"]
NothingPosted == [state |-> "none", result_actions |-> <<>>, actions_dict |-> <<>>,
                  raised |-> FALSE, stored |-> <<>>]
NothingOptimized == [state |-> "none", input |-> <<>>, output |-> <<>>]

\* No post-processing call has been made.
NoCallYet == typed = NothingTyped /\ post = NothingPosted /\ optimized = NothingOptimized

\* Python's None as an action's value.
None == "None"

\* The five action types of the browser extension.
CanonicalTypes == {"fillText", "selectDropdown", "selectRadio", "selectCheckbox", "click"}

\* Action types an agent may return: the canonical ones, the alias, a type
\* outside the table, and the default of action_data.get("action_type", "").
AgentTypes == CanonicalTypes \cup {"setText", "hover", ""}

\* map_action_type's mapping table.
mapping ==
    ("fillText" :> "fillText") @@ ("selectDropdown" :> "selectDropdown")
    @@ ("selectRadio" :> "selectRadio") @@ ("selectCheckbox" :> "selectCheckbox")
    @@ ("click" :> "click") @@ ("setText" :> "fillText")

\* A mapping.get whose default is the input itself.
map_action_type_passthrough(x) == IF x \in DOMAIN mapping THEN mapping[x] ELSE x

\* mapping.get(agent_action_type, "fillText")
map_action_type(x) == IF x \in DOMAIN mapping THEN mapping[x] ELSE "fillText"

\* One call of map_action_type, and a second one on its result.
MapActionType(x) ==
    /\ NoCallYet
    /\ ext' = [ext EXCEPT !.calls.typed =
                   [input |-> x, once |-> map_action_type(x),
                    twice |-> map_action_type(map_action_type(x))]]
    /\ UNCHANGED <<vars, svars, up, listed>>

\* The actions of a generator result as the save block reads them: the drop
\* rule looks at action_type and value alone; selector and label are copied.
GeneratedActions ==
    [action_type : AgentTypes, value : {None, "true"}, selector : {<<"#f">>}, label : {<<"Field">>}]

\* The sequences of length at most n over S.
SeqsUpTo(S, n) == UNION {[1 .. k -> S] : k \in 0 .. n}

\* A drop rule that knows the text types alone.
text_value_actions == {"fillText", "setText"}

\* required_value_actions (line 850)
required_value_actions == {"fillText", "selectDropdown", "selectCheckbox", "setText"}

\* Lines 851-870: the loop that builds actions_dict.
RECURSIVE actions_dict(_)
actions_dict(result_actions) ==
    IF result_actions = <<>> THEN <<>>
    ELSE LET action_data == Head(result_actions)
             action_type == map_action_type(action_data.action_type)
         IN  IF action_type \in required_value_actions /\ action_data.value = None
             THEN actions_dict(Tail(result_actions))
             ELSE <<[action_data EXCEPT !.action_type = action_type]>>
                  \o actions_dict(Tail(result_actions))

\* create_form_actions: FormAction(..., question=..., order_index=idx) for
\* each action.  The FormAction model has no attribute question, so the
\* declarative constructor raises TypeError at the first action and nothing
\* is added; an empty list is committed as it is.
create_form_actions(acts) ==
    IF acts = <<>> THEN [raised |-> FALSE, stored |-> <<>>]
    ELSE [raised |-> TRUE, stored |-> <<>>]

\* Lines 847-875 on a generator result: build actions_dict, hand it to
\* create_form_actions.
SaveResults(result_actions) ==
    /\ NoCallYet
    /\ ext' = [ext EXCEPT !.calls.post =
                   [state |-> "saved", result_actions |-> result_actions,
                    actions_dict |-> actions_dict(result_actions),
                    raised |-> create_form_actions(actions_dict(result_actions)).raised,
                    stored |-> create_form_actions(actions_dict(result_actions)).stored]]
    /\ UNCHANGED <<vars, svars, up, listed>>

\* ------------------------------------------------------------------ optimize_actions

\* Strings that the code takes apart (selectors, labels) are kept as the
\* sequences of their lexical pieces.
Selectors ==
    {<<>>,
     <<"#g", "[", "value=m", "]">>,
     <<"#g", "[", "value=f", "]">>,
     <<"[", "data-row-index", "=1", "]", " ", "[", "value=a", "]">>,
     <<"[", "data-row-index", "=1", "]", " ", "[", "value=b", "]">>}

Labels == {<<>>, <<"Gender">>, <<" ", "gender">>}

\* The FormAction objects handed to optimize_actions; every type but
\* selectRadio takes the same path, fillText stands for them.
FormActions ==
    [action_type : {"selectRadio", "fillText"}, value : {None, "true"},
     selector : Selectors, label : Labels]

\* str.strip()
RECURSIVE strip(_)
strip(str) ==
    IF str = <<>> THEN <<>>
    ELSE IF Head(str) = " " THEN strip(Tail(str))
    ELSE IF str[Len(str)] = " " THEN strip(SubSeq(str, 1, Len(str) - 1))
    ELSE str

\* str.lower()
lower(str) == [i \in DOMAIN str |-> IF str[i] = "Gender" THEN "gender" ELSE str[i]]

\* str.find(piece): the first position of the piece, 0 when it does not occur.
find(str, piece) ==
    IF \E i \in DOMAIN str : str[i] = piece
    THEN CHOOSE i \in DOMAIN str : str[i] = piece /\ \A j \in 1 .. (i - 1) : str[j] # piece
    ELSE 0

\* fragment.split(']', 1)[0]
RECURSIVE before_bracket(_)
before_bracket(str) ==
    IF str = <<>> \/ Head(str) = "]" THEN <<>>
    ELSE <<Head(str)>> \o before_bracket(Tail(str))

\* The markers _radio_group_key looks for, in its order.
markers == <<"data-field-index", "data-row-index", "data-row-id", "data-question-id">>

\* _radio_group_key
radio_group_key(action) ==
    LET label == lower(strip(action.label))
        selector == action.selector
        found == {m \in DOMAIN markers : find(selector, markers[m]) # 0}
    IN  IF found # {}
        THEN LET m == CHOOSE k \in found : \A l \in found : k <= l
                 fragment == SubSeq(selector, find(selector, markers[m]), Len(selector))
             IN  <<"radio:">> \o label \o <<":">> \o before_bracket(fragment)
        ELSE IF selector # <<>>
        THEN <<"radio:">> \o label \o <<":">> \o strip(selector)
        ELSE <<"radio:">> \o (IF label # <<>> THEN label ELSE <<"unknown">>)

\* generic_key of optimize_actions
generic_key(action) ==
    <<action.action_type, strip(action.selector),
      IF action.value # None THEN <<"repr", action.value>> ELSE <<>>>>

\* The loop over reversed(actions): position i downwards, with the keys
\* seen and the actions kept so far.
RECURSIVE scan(_, _, _, _, _)
scan(acts, i, seen_radio_keys, seen_generic_keys, kept) ==
    IF i = 0 THEN kept
    ELSE LET action == acts[i]
             radio == action.action_type = "selectRadio"
         IN  IF radio /\ radio_group_key(action) \in seen_radio_keys
             THEN scan(acts, i - 1, seen_radio_keys, seen_generic_keys, kept)
             ELSE LET radio_keys == IF radio THEN seen_radio_keys \cup {radio_group_key(action)}
                                    ELSE seen_radio_keys
                  IN  IF generic_key(action) \in seen_generic_keys
                      THEN scan(acts, i - 1, radio_keys, seen_generic_keys, kept)
                      ELSE scan(acts, i - 1, radio_keys,
                                seen_generic_keys \cup {generic_key(action)}, Append(kept, action))

unreversed(seq) == seq

\* list.reverse()
reverse(seq) == [i \in DOMAIN seq |-> seq[Len(seq) + 1 - i]]

optimize_actions(acts) ==
    IF acts = <<>> THEN <<>>
    ELSE reverse(scan(acts, Len(acts), {}, {}, <<>>))


\* One call of optimize_actions.
OptimizeActions(acts) ==
    /\ NoCallYet
    /\ ext' = [ext EXCEPT !.calls.optimized =
                   [state |-> "returned", input |-> acts, output |-> optimize_actions(acts)]]
    /\ UNCHANGED <<vars, svars, up, listed>>

\* ------------------------------------------------------------------ documents

\* The uploads followed: two files of one user.
FileIds == {1, 2}

\* ChunkType values of the chunks process_pdf and process_image build.
ChunkTypes == {"text", "image"}

\* ALLOWED_MIME_TYPES, one PDF and one image type.
ContentTypes == {"application/pdf", "image/png"}

NoContext == "No relevant context retrieved from documents."

NothingRetrieved ==
    [state |-> "none", text_raised |-> FALSE, text_results |-> {}, image_results |-> {},
     text_chunks |-> <<>>, image_chunks |-> <<>>, context_section |-> ""]

NoService == [state |-> "None", vertex_available |-> FALSE]

\* A behaviour is followed up to the return of its retrieval call: what the
\* call returned does not change with the uploads and deletions after it.
NoRetrievalYet == retrieved = NothingRetrieved

Range(seq) == {seq[i] : i \in DOMAIN seq}

ids_of(S) == {c.id : c \in S}

\* get_rag_service(): the first call constructs RAGService and with it
\* ImageEmbeddingService, whose vertex_available is fixed from then on
\* (project configured, library installed, model loaded).
GetRagService(available) ==
    /\ rag_service = NoService
    /\ ext' = [ext EXCEPT !.rag.rag_service =
                   [state |-> "RAGService", vertex_available |-> available]]
    /\ UNCHANGED <<vars, svars, up, listed>>

\* upload_file: the row is stored and process_file_for_rag is scheduled.
UploadFile(f) ==
    /\ NoRetrievalYet
    /\ files[f] = "none"
    /\ ext' = [ext EXCEPT !.rag.files[f] = "stored", !.rag.ingest[f] = "scheduled"]
    /\ UNCHANGED <<vars, svars, up, listed>>

\* What the document processor returns, as the chunk types in chunk_index
\* order: process_pdf any mix, process_image one IMAGE chunk.
ProcessorOutputs(content_type) ==
    IF content_type = "application/pdf" THEN SeqsUpTo(ChunkTypes, MaxChunks) ELSE {<<"image">>}

\* The chunk dicts of a file: str(uuid.uuid4()) is a fresh id.
NewChunks(file_id, types) ==
    [i \in 1 .. Len(types) |->
        [id |-> (file_id - 1) * MaxChunks + i, file_id |-> file_id, chunk_type |-> types[i]]]

\* How one ingestion goes: which call raises, if any.
IngestOutcomes == {"ok", "processor raises", "text embedding raises", "image add raises"}

\* EmbeddingService.add_chunks: every chunk is embedded, then one batch add;
\* an embedding or the add raising adds nothing and is re-raised.
add_chunks(chunks, outcome) ==
    IF chunks = <<>> THEN [raised |-> FALSE, added |-> {}]
    ELSE IF outcome = "text embedding raises" THEN [raised |-> TRUE, added |-> {}]
    ELSE [raised |-> FALSE, added |-> Range(chunks)]

\* The chunks add_image_chunks collects: IMAGE chunks whose embed_image
\* returned an embedding.
image_batch(chunks, embeddable) ==
    {chunks[i] : i \in {j \in DOMAIN chunks : chunks[j].chunk_type = "image" /\ j \in embeddable}}

\* ImageEmbeddingService.add_image_chunks.
add_image_chunks(chunks, available, embeddable, outcome) ==
    IF chunks = <<>> \/ ~available \/ image_batch(chunks, embeddable) = {}
    THEN [raised |-> FALSE, added |-> {}]
    ELSE IF outcome = "image add raises" THEN [raised |-> TRUE, added |-> {}]
    ELSE [raised |-> FALSE, added |-> image_batch(chunks, embeddable)]

\* process_and_index_file in the background task of upload_file.
ProcessAndIndexFile(f, content_type, types, embeddable, outcome) ==
    /\ NoRetrievalYet
    /\ rag_service # NoService
    /\ ingest[f] = "scheduled"
    /\ IF files[f] # "stored" \/ outcome = "processor raises"
       THEN ext' = [ext EXCEPT !.rag.ingest[f] = "finished"]
       ELSE LET chunks == NewChunks(f, types)
                text == add_chunks(chunks, outcome)
                image == add_image_chunks(chunks, rag_service.vertex_available, embeddable, outcome)
            IN  ext' = [ext EXCEPT
                          !.rag.ingest[f] = "finished",
                          !.rag.document_chunks = @ \cup Range(chunks),
                          !.rag.text_collection = @ \cup text.added,
                          !.rag.image_collection = IF text.raised THEN @ ELSE @ \cup image.added]
    /\ UNCHANGED <<vars, svars, up, listed>>

\* EmbeddingService.delete_file_chunks: delete where file_id matches.
delete_file_chunks(collection, file_id) == {c \in collection : c.file_id # file_id}

\* delete_file of the files router: the row goes, its document_chunks rows
\* with it (ON DELETE CASCADE), and cleanup_rag_data is scheduled.
DeleteFile(f) ==
    /\ NoRetrievalYet
    /\ files[f] = "stored"
    /\ ext' = [ext EXCEPT
                  !.rag.files[f] = "deleted",
                  !.rag.document_chunks = {c \in @ : c.file_id # f},
                  !.rag.rag_cleanup[f] = "scheduled"]
    /\ UNCHANGED <<vars, svars, up, listed>>

\* cleanup_rag_data: embedding_service.delete_file_chunks(file_id) alone; it
\* returns False when the collection raises.
CleanupRagData(f, delete_ok) ==
    /\ NoRetrievalYet
    /\ rag_service # NoService
    /\ rag_cleanup[f] = "scheduled"
    /\ ext' = [ext EXCEPT
                  !.rag.rag_cleanup[f] = IF delete_ok THEN "done" ELSE "failed",
                  !.rag.text_collection = IF delete_ok THEN delete_file_chunks(@, f) ELSE @]
    /\ UNCHANGED <<vars, svars, up, listed>>

\* ------------------------------------------------------------------ retrieval

\* The results a collection query can give: at most TopK of its entries.
Hits(collection) == {H \in SUBSET collection : Cardinality(H) <= TopK}

\* What can raise inside one retrieve_relevant_context call.
RetrievalFailures == {"none", "text index raises", "image index raises", "chunk query raises"}

search_through(hits, failure) == hits

\* EmbeddingService.search: the hits, [] when the embedding or the query raises.
search(hits, failure) == IF failure = "text index raises" THEN {} ELSE hits

\* ImageEmbeddingService.search_images: [] without Vertex AI or on an error.
search_images(hits, available, failure) ==
    IF ~available \/ failure = "image index raises" THEN {} ELSE hits

\* list(set(text_chunk_ids + image_chunk_ids))
all_chunk_ids(text_results, image_results) == ids_of(text_results) \cup ids_of(image_results)

\* get_chunks_by_ids: the rows whose id is IN the list.
get_chunks_by_ids(chunk_ids) == {c \in document_chunks : c.id \in chunk_ids}

\* The rows in the order the loop of retrieve_relevant_context visits them.
RECURSIVE in_order(_)
in_order(S) ==
    IF S = {} THEN <<>>
    ELSE LET first == CHOOSE c \in S : \A d \in S : c.id <= d.id
         IN  <<first>> \o in_order(S \ {first})

any_type(chunk) == TRUE

\* chunk_type_str == "text"
is_text(chunk) == chunk.chunk_type = "text"

\* chunk_type_str == "image"
is_image(chunk) == chunk.chunk_type = "image"

chunk_id(chunks) == [i \in DOMAIN chunks |-> chunks[i].id]

\* agent_service: "\n".join(context_info) if context_info else the literal.
context_section(text_chunks, image_chunks) ==
    IF text_chunks = <<>> /\ image_chunks = <<>> THEN NoContext ELSE "Retrieved"

\* retrieve_relevant_context, and the context section process_question
\* builds from its result.  When the chunk query raises, the except clause
\* returns two empty lists.
RetrieveRelevantContext(text_hits, image_hits, failure) ==
    /\ NoRetrievalYet
    /\ rag_service # NoService
    /\ LET db_ok == failure # "chunk query raises"
           text_results == search(text_hits, failure)
           image_results == search_images(image_hits, rag_service.vertex_available, failure)
           chunks == in_order(get_chunks_by_ids(all_chunk_ids(text_results, image_results)))
           text_chunks == IF db_ok THEN chunk_id(SelectSeq(chunks, is_text)) ELSE <<>>
           image_chunks == IF db_ok THEN chunk_id(SelectSeq(chunks, is_image)) ELSE <<>>
       IN  ext' = [ext EXCEPT !.rag.retrieved =
               [state |-> "returned", text_raised |-> failure = "text index raises",
                text_results |-> ids_of(text_results), image_results |-> ids_of(image_results),
                text_chunks |-> text_chunks, image_chunks |-> image_chunks,
                context_section |-> context_section(text_chunks, image_chunks)]]
    /\ UNCHANGED <<vars, svars, up, listed>>

\* ------------------------------------------------------------------ assembly of the phases

\* batch_size values: the default and two that split MaxGathered pairs.
BatchSizes == {1, 2, BatchSize}

\* An awaitable that has not ended.
Unfinished == "pending"

NotAssembling ==
    [pc |-> "idle", n |-> 0, solver |-> <<>>, order |-> <<>>, results |-> <<>>,
     batch_size |-> 0, batch |-> <<>>, combined |-> <<>>]

\* A wait that returns when the first awaitable has ended.
any_done(tasks) == \E i \in DOMAIN tasks : tasks[i] # Unfinished

\* asyncio.gather returns when every awaitable has ended.
all_done(tasks) == \A i \in DOMAIN tasks : tasks[i] # Unfinished

\* The results in the order in which the awaitables ended.
as_completed(n, order, result) ==
    [k \in 1 .. n |-> IF k <= Len(order) THEN result[order[k]] ELSE result[k]]

\* asyncio.gather(*tasks): the results in the order of the awaitables,
\* whatever the order in which they ended.
gather(n, order, result) == [i \in 1 .. n |-> result[i]]

\* The entry process_question(idx, question) returns (both return
\* statements): its own question and the solution text.
entry(i, o) == [question |-> i, solution |-> SolutionText(o)]

\* len(batches) for n pairs.
batch_count(n, batch_size) == (n + batch_size - 1) \div batch_size

\* question_solution_pairs[i:i + batch_size] for i in range(0, n, batch_size)
batches(pairs, batch_size) ==
    [j \in 1 .. batch_count(Len(pairs), batch_size) |->
        SubSeq(pairs, (j - 1) * batch_size + 1,
               IF j * batch_size < Len(pairs) THEN j * batch_size ELSE Len(pairs))]

\* What process_batch returns: the agent's result (here one action per
\* pair of the batch, in the batch's order, named by its question), the
\* agent's error dictionary, or {"actions": []} when the agent raised.
batch_result(pairs, out) ==
    IF out = "actions"
    THEN [keys |-> {"actions"}, actions |-> [k \in DOMAIN pairs |-> pairs[k].question]]
    ELSE IF out = "raised" THEN [keys |-> {"actions"}, actions |-> <<>>]
    ELSE [keys |-> {"status", "message"}, actions |-> <<>>]

\* for result in batch_results: if result and "actions" in result:
\*     combined_actions.extend(result["actions"])
RECURSIVE combined_actions(_)
combined_actions(batch_results) ==
    IF batch_results = <<>> THEN <<>>
    ELSE (IF "actions" \in Head(batch_results).keys THEN Head(batch_results).actions ELSE <<>>)
         \o combined_actions(Tail(batch_results))

\* process_form_analysis_async awaits parse_form_structure.
ParseFormStructure ==
    /\ assembly.pc = "idle"
    /\ ext' = [ext EXCEPT !.assembly.pc = "parsing"]
    /\ UNCHANGED <<vars, svars, up, listed>>

\* The parser returns n questions.
ParserReturnsQuestions(n) ==
    /\ assembly.pc = "parsing"
    /\ ext' = [ext EXCEPT !.assembly.pc = "parsed", !.assembly.n = n]
    /\ UNCHANGED <<vars, svars, up, listed>>

\* generate_solutions_per_question(questions) up to the await of gather:
\* one process_question per question.
GenerateSolutions ==
    /\ assembly.pc = "parsed"
    /\ ext' = [ext EXCEPT !.assembly.pc = "solving",
                          !.assembly.solver = [i \in 1 .. assembly.n |-> Unfinished]]
    /\ UNCHANGED <<vars, svars, up, listed>>

\* process_question(i) ends with outcome o.
QuestionEnds(i, o) ==
    /\ assembly.pc = "solving"
    /\ i \in DOMAIN assembly.solver /\ assembly.solver[i] = Unfinished
    /\ ext' = [ext EXCEPT !.assembly.solver[i] = o,
                          !.assembly.order = Append(@, i)]
    /\ UNCHANGED <<vars, svars, up, listed>>

\* results = await asyncio.gather(*tasks); return results
SolutionsGathered ==
    /\ assembly.pc = "solving"
    /\ all_done(assembly.solver)
    /\ ext' = [ext EXCEPT !.assembly.pc = "solved",
                          !.assembly.results =
                              gather(assembly.n, assembly.order,
                                     [i \in 1 .. assembly.n |-> entry(i, assembly.solver[i])])]
    /\ UNCHANGED <<vars, svars, up, listed>>

\* generate_actions_from_solutions(pairs, batch_size) on the returned
\* entries, up to the await of gather: one process_batch per batch.
GenerateActionsFromSolutions(batch_size) ==
    /\ assembly.pc = "solved"
    /\ ext' = [ext EXCEPT !.assembly.pc = "generating",
                          !.assembly.batch_size = batch_size,
                          !.assembly.order = <<>>,
                          !.assembly.batch =
                              [j \in 1 .. batch_count(assembly.n, batch_size) |-> Unfinished]]
    /\ UNCHANGED <<vars, svars, up, listed>>

\* process_batch(j) ends with outcome out.
BatchEnds(j, out) ==
    /\ assembly.pc = "generating"
    /\ j \in DOMAIN assembly.batch /\ assembly.batch[j] = Unfinished
    /\ ext' = [ext EXCEPT !.assembly.batch[j] = out,
                          !.assembly.order = Append(@, j)]
    /\ UNCHANGED <<vars, svars, up, listed>>

\* batch_results = await asyncio.gather(*tasks), then the combining loop.
ActionsGathered ==
    /\ assembly.pc = "generating"
    /\ all_done(assembly.batch)
    /\ ext' = [ext EXCEPT !.assembly.pc = "generated",
                          !.assembly.combined =
                              combined_actions(
                                  gather(Len(assembly.batch), assembly.order,
                                         [j \in DOMAIN assembly.batch |->
                                             batch_result(batches(assembly.results, assembly.batch_size)[j],
                                                          assembly.batch[j])]))]
    /\ UNCHANGED <<vars, svars, up, listed>>

\* ------------------------------------------------------------------ agent runner

\* StandardAgent and StructuredAgent.
Variants == {"standard", "structured"}

\* What one attempt meets: a final response with text that is the JSON asked
\* for, a final response with text that is no JSON, an escalation, an event
\* stream without a final response, a final response without content, or an
\* exception from create_session or run_async.
AttemptOutcomes == {"success", "bad_json", "escalated", "no_final", "empty_final", "exception"}

NotRunning ==
    [pc |-> "idle", variant |-> "standard", max_retries |-> 0, attempt |-> 0,
     trace |-> <<>>, result |-> "none"]

\* An attempt count without the clamp.
attempts_unclamped(max_retries) == max_retries + 1

\* total_attempts = max(0, max_retries) + 1
total_attempts(max_retries) == (IF max_retries > 0 THEN max_retries ELSE 0) + 1

\* StandardAgent.run, one pass of the loop body: return a success or an
\* error value, raise, go on to the sleep, or continue without it.
standard_attempt(outcome, attempt, total) ==
    LET last == attempt = total - 1
    IN  IF outcome \in {"success", "bad_json"} THEN "success"
        ELSE IF outcome = "escalated" THEN (IF last THEN "error" ELSE "continue")
        ELSE IF outcome = "exception" THEN (IF last THEN "raise" ELSE "sleep")
        ELSE (IF last THEN "error" ELSE "sleep")

\* StructuredAgent.run, one pass of the loop body.
structured_attempt(outcome, attempt, total) ==
    LET last == attempt = total - 1
    IN  IF outcome = "success" THEN "success"
        ELSE IF outcome = "bad_json" THEN (IF last THEN "raise" ELSE "continue")
        ELSE IF outcome = "escalated" THEN (IF last THEN "error" ELSE "continue")
        ELSE IF outcome = "exception" THEN (IF last THEN "raise" ELSE "sleep")
        ELSE (IF last THEN "error" ELSE "sleep")

\* run(..., max_retries) up to the first attempt; with no attempt to make
\* the loop is skipped and the closing return gives the error value.
Run(variant, max_retries) ==
    /\ agent.pc = "idle"
    /\ ext' = [ext EXCEPT !.agent =
                   [NotRunning EXCEPT
                       !.pc = IF total_attempts(max_retries) > 0 THEN "calling" ELSE "returned",
                       !.result = IF total_attempts(max_retries) > 0 THEN "none" ELSE "error",
                       !.variant = variant, !.max_retries = max_retries]]
    /\ UNCHANGED <<vars, svars, up, listed>>

\* One attempt: the model is called and the loop body handles what came.
AttemptEnds(outcome) ==
    /\ agent.pc = "calling"
    /\ LET total == total_attempts(agent.max_retries)
           step == IF agent.variant = "standard"
                   THEN standard_attempt(outcome, agent.attempt, total)
                   ELSE structured_attempt(outcome, agent.attempt, total)
       IN  ext' = [ext EXCEPT
                      !.agent.trace = Append(@, outcome),
                      !.agent.pc = IF step \in {"success", "error"} THEN "returned"
                                   ELSE IF step = "raise" THEN "raised"
                                   ELSE IF step = "sleep" THEN "sleeping"
                                   ELSE "calling",
                      !.agent.result = IF step \in {"success", "error"} THEN step ELSE @,
                      !.agent.attempt = IF step = "continue" THEN @ + 1 ELSE @]
    /\ UNCHANGED <<vars, svars, up, listed>>

\* await asyncio.sleep(retry_delay) returns and the next attempt begins.
SleepEnds ==
    /\ agent.pc = "sleeping"
    /\ ext' = [ext EXCEPT !.agent.trace = Append(@, "sleep"),
                          !.agent.pc = "calling",
                          !.agent.attempt = @ + 1]
    /\ UNCHANGED <<vars, svars, up, listed>>

\* ------------------------------------------------------------------ specification

Init ==
    /\ now = 0
    /\ rows = [r \in {} |-> NewRow("u1", 0)]
    /\ progress = [r \in Requests |-> <<>>]
    /\ actions = [r \in Requests |-> <<>>]
    /\ adm = [h \in Requests |-> IdleAdm]
    /\ task = [r \in Requests |-> NoTask]
    /\ registry = {}
    /\ del = [r \in Requests |-> IdleDel]
    /\ qtasks = [k \in TaskKinds |-> 0]
    /\ semaphore = SemaphoreWidth
    /\ call = IdleCall
    /\ reported = 0
    /\ generated = NoneGenerated
    /\ up = TRUE
    /\ listed = NothingListed
    /\ ext = [calls |-> [typed |-> NothingTyped, post |-> NothingPosted,
                         optimized |-> NothingOptimized],
              rag |-> [rag_service |-> NoService,
                       files |-> [f \in FileIds |-> "none"],
                       ingest |-> [f \in FileIds |-> "none"],
                       rag_cleanup |-> [f \in FileIds |-> "none"],
                       document_chunks |-> {},
                       text_collection |-> {},
                       image_collection |-> {},
                       retrieved |-> NothingRetrieved],
              assembly |-> NotAssembling,
              agent |-> NotRunning]

\* The steps of the request lifecycle when the admission calls are those in R.
NextFor(R) ==
    \/ Tick
    \/ \E h \in R, u \in Users : AdmitCheck(h, u)
    \/ \E h \in R : AdmitInsert(h)
    \/ \E r \in R : StartPipeline(r)
    \/ \E r \in R : StartRaises(r)
    \/ \E r \in R, res \in ParserResults : ParseReturns(r, res)
    \/ \E r \in R : ParseRaises(r)
    \/ \E r \in R : Phase2(r)
    \/ \E r \in R : HandleException(r)
    \/ \E r \in R : TaskExit(r)
    \/ \E r \in R : TaskCancelled(r)
    \/ \E r \in R, u \in Users : DeleteStart(r, u)
    \/ \E r \in R : DeleteAwait(r)
    \/ \E r \in R : DeleteRow(r)
    \/ Cleanup

Next == NextFor(Requests)

\* Every admission call, concurrently.
Spec == Init /\ [][Next]_vars

TrackedNext == NextFor(1 .. MaxTracked)

\* The life of the first MaxTracked requests: every operation on a request
\* is keyed by its id, so what holds of one request's row, task and handlers
\* is checked here.
TrackedSpec == Init /\ [][TrackedNext]_vars

\* A step of the pipeline task of r.
PipelineStep(r) ==
    \/ StartPipeline(r)
    \/ StartRaises(r)
    \/ \E res \in ParserResults : ParseReturns(r, res)
    \/ ParseRaises(r)
    \/ Phase2(r)
    \/ HandleException(r)
    \/ TaskExit(r)
    \/ TaskCancelled(r)

\* The event loop resumes every task that can run, and every awaited call
\* of a task returns or raises.
FairSpec == TrackedSpec /\ \A r \in 1 .. MaxTracked : WF_vars(PipelineStep(r))

\* One call of generate_solutions_per_question, cancelled or followed by
\* generate_actions_from_solutions; the request tables stay as they are.
SolverNext ==
    \/ \E n \in 1 .. MaxQuestions : CallSolver(n)
    \/ Enter
    \/ Acquire
    \/ \E o \in SolverOutcomes : SolverReturns(o)
    \/ \E o \in EndOutcomes : Report(o)
    \/ GatherReturns
    \/ CancelCaller
    \/ \E kind \in {NewTask, Waiting} : CancelOutside(kind)
    \/ CancelSolving
    \/ \E o \in SolverOutcomes : CancelReporting(o)
    \/ GatherCancelled
    \/ \E outs \in [1 .. BatchCount(call.n) -> BatchOutcomes] : GenerateActions(outs)

SolverSpec == Init /\ [][SolverNext]_allvars

\* The request lifecycle until the application is shut down.
ShutdownNext ==
    \/ up /\ TrackedNext
    \/ Shutdown

ShutdownSpec == Init /\ [][ShutdownNext]_allvars

\* The request lifecycle with callers of log_progress_event and of
\* list_progress_events.
ProgressNext ==
    \/ TrackedNext
    \/ \E r \in 1 .. MaxTracked, stage \in LoggedStages : LogProgressEvent(r, stage)
    \/ \E r \in 1 .. MaxTracked : \E ids \in OrderedByCreatedAt(progress[r]) : ListProgressEvents(r, ids)

ProgressSpec == Init /\ [][ProgressNext]_allvars

\* The inputs of the call a behaviour makes: none once it has made it.
Pending(inputs) == IF NoCallYet THEN inputs ELSE {}

\* One call of a post-processing function on an agent's output: the calls
\* share no state, so each behaviour makes one.
PostNext ==
    \/ \E x \in AgentTypes : MapActionType(x)
    \/ \E result_actions \in Pending(SeqsUpTo(GeneratedActions, MaxActions)) :
          SaveResults(result_actions)
    \/ \E acts \in Pending(SeqsUpTo(FormActions, MaxActions)) : OptimizeActions(acts)

PostSpec == Init /\ [][PostNext]_allvars

\* Uploads, their background ingestion, deletions and their background
\* clean-up in any interleaving, and a retrieval call at any point of it.
RagNext ==
    \/ \E available \in BOOLEAN : GetRagService(available)
    \/ \E f \in FileIds : UploadFile(f)
    \/ \E f \in FileIds, content_type \in ContentTypes, outcome \in IngestOutcomes :
          \E types \in ProcessorOutputs(content_type) : \E embeddable \in SUBSET DOMAIN types :
             ProcessAndIndexFile(f, content_type, types, embeddable, outcome)
    \/ \E f \in FileIds : DeleteFile(f)
    \/ \E f \in FileIds, delete_ok \in BOOLEAN : CleanupRagData(f, delete_ok)
    \/ \E text_hits \in Hits(text_collection), image_hits \in Hits(image_collection) :
          \E failure \in RetrievalFailures :
             RetrieveRelevantContext(text_hits, image_hits, failure)

RagSpec == Init /\ [][RagNext]_allvars

\* One analysis through its three phases; the tasks of a phase end in any
\* order.
AssemblyNext ==
    \/ ParseFormStructure
    \/ \E n \in 1 .. MaxGathered : ParserReturnsQuestions(n)
    \/ GenerateSolutions
    \/ \E i \in 1 .. MaxGathered, o \in SolverOutcomes : QuestionEnds(i, o)
    \/ SolutionsGathered
    \/ \E batch_size \in BatchSizes : GenerateActionsFromSolutions(batch_size)
    \/ \E j \in 1 .. MaxGathered, out \in BatchOutcomes : BatchEnds(j, out)
    \/ ActionsGathered

AssemblySpec == Init /\ [][AssemblyNext]_allvars

\* One call of run of either agent class, each attempt ending in any way.
AgentNext ==
    \/ \E variant \in Variants, max_retries \in (0 - 1) .. MaxRetries : Run(variant, max_retries)
    \/ \E outcome \in AttemptOutcomes : AttemptEnds(outcome)
    \/ SleepEnds

AgentSpec == Init /\ [][AgentNext]_allvars

\* ------------------------------------------------------------------ claims

\* The user's requests in one of the statuses S.
RequestsIn(u, S) == {r \in DOMAIN rows : rows[r].user = u /\ rows[r].status \in S}

\* Position of a status in the listed order.
Rank(st) == CHOOSE i \in 1 .. Len(StatusOrder) : StatusOrder[i] = st

\* Task.cancel() has been called on the task of r.
CancelCalled(r) == task[r].must_cancel \/ task[r].state = "cancelled"

\* C1: in every reachable state every user owns at most one request whose
\* status is pending, processing, processing_step_1 or processing_step_2.
AtMostOneActivePerUser ==
    \A u \in Users : Cardinality(RequestsIn(u, ActiveStatuses)) <= 1

\* C2: an admission call whose active-request check runs while its user owns
\* a request in status pending, processing, processing_step_1 or
\* processing_step_2 ends with 409 and neither creates a row nor schedules
\* a task.
ActiveUserIsRejected ==
    [][\A h \in Requests :
          (adm[h].pc = "idle" /\ adm'[h].pc # "idle"
              /\ RequestsIn(adm'[h].user, ActiveStatuses) # {})
          => (adm'[h].pc = "done" /\ adm'[h].resp = "409"
              /\ rows' = rows /\ task' = task /\ registry' = registry)]_vars

\* C3: of two admission calls of one user that both passed the check before
\* either inserted, the one that inserts first is admitted and the other
\* ends with 409.
RaceLoserGetsConflict ==
    \A h \in Requests : \A k \in adm[h].rivals :
        adm[k].pc = "done" => adm[k].resp = "409"

\* C4: a pipeline whose parser returned a questions array of N >= 1
\* questions ends with its request completed and fields_detected = N.
QuestionsEndCompleted ==
    \A r \in DOMAIN rows :
        (task[r].state = "active" /\ task[r].pc = "exit"
            /\ task[r].parser.kind = "questions" /\ task[r].parser.n >= 1)
        => (rows[r].status = "completed" /\ rows[r].fields_detected = task[r].parser.n)

\* C5: a status changes only forward in the listed order or from a
\* non-terminal status to failed; completed and failed never change.
StatusMovesForward ==
    [][\A r \in (DOMAIN rows) \cap (DOMAIN rows') :
          rows'[r].status # rows[r].status
          => (/\ rows[r].status \notin TerminalStatuses
              /\ \/ rows'[r].status = "failed"
                 \/ Rank(rows'[r].status) > Rank(rows[r].status))]_vars

RanBothPhasesThenFailed ==
    \E r \in DOMAIN rows :
        /\ rows[r].status = "failed"
        /\ rows[r].error_message = AttributeErrorMsg
        /\ task[r].state = "done"

\* C6: completed_at is set exactly on the rows in status completed or
\* failed, and it is written by the step into one of them and by no other.
CompletedAtOnlyWhenTerminal ==
    [][\A r \in DOMAIN rows' :
          /\ (rows'[r].completed_at # Null) <=> (rows'[r].status \in TerminalStatuses)
          /\ r \in DOMAIN rows /\ rows'[r].completed_at # rows[r].completed_at
             => (rows[r].status \notin TerminalStatuses
                 /\ rows'[r].status \in TerminalStatuses)]_vars

FailedLaterThanStarted ==
    \E r \in DOMAIN rows :
        /\ rows[r].status = "failed"
        /\ rows[r].started_at # Null
        /\ rows[r].completed_at > rows[r].started_at

\* C7: every request whose status is no longer pending has started_at set.
StartedWhenNotPending ==
    \A r \in DOMAIN rows : rows[r].status # "pending" => rows[r].started_at # Null

\* C8: a completed request has started_at and completed_at set with
\* started_at <= completed_at, and fields_detected set and >= 0.
CompletedRowWellFormed ==
    \A r \in DOMAIN rows :
        rows[r].status = "completed"
        => (/\ rows[r].started_at # Null
            /\ rows[r].completed_at # Null
            /\ rows[r].started_at <= rows[r].completed_at
            /\ rows[r].fields_detected # Null
            /\ rows[r].fields_detected >= 0)

CompletedLaterThanStarted ==
    \E r \in DOMAIN rows :
        /\ rows[r].status = "completed"
        /\ rows[r].started_at # Null
        /\ rows[r].completed_at > rows[r].started_at

\* C9: once cancel has been called on a pipeline's task, no step sets the
\* request's status to failed.
CancelNeverFails ==
    [][\A r \in (DOMAIN rows) \cap (DOMAIN rows') :
          (CancelCalled(r) /\ rows[r].status # "failed")
          => rows'[r].status # "failed"]_vars

CancelledInsideHandler ==
    \E r \in DOMAIN rows :
        /\ task[r].state = "cancelled"
        /\ task[r].pc = "handler"
        /\ rows[r].status = "processing_step_2"

\* C10: once cancel has been called on a pipeline's task, no FormAction
\* row exists for its request and its status does not become completed.
CancelledNeverCompletes ==
    [][\A r \in Requests :
          CancelCalled(r)
          => (/\ actions'[r] = <<>>
              /\ (r \in (DOMAIN rows) \cap (DOMAIN rows') /\ rows[r].status # "completed")
                 => rows'[r].status # "completed")]_vars

CancelledBetweenPhases ==
    \E r \in DOMAIN rows :
        /\ task[r].state = "cancelled"
        /\ task[r].pc = "phase2"
        /\ rows[r].status = "processing_step_1"
        /\ actions[r] = <<>>

LastStage(r) == IF progress[r] = <<>> THEN "none" ELSE progress[r][Len(progress[r])].stage

\* C12: a pipeline whose parser returned an empty questions list ends with
\* its request completed, fields_detected = 0, exactly one progress event
\* (no_questions) after the queued one, and no FormAction row.
EmptyQuestionsCompletes ==
    \A r \in DOMAIN rows :
        (task[r].state = "active" /\ task[r].pc = "exit"
            /\ task[r].parser.kind = "questions" /\ task[r].parser.n = 0)
        => (/\ rows[r].status = "completed"
            /\ rows[r].fields_detected = 0
            /\ Len(progress[r]) = 2
            /\ LastStage(r) = "no_questions"
            /\ actions[r] = <<>>)

\* C13: a pipeline whose parser result has no questions array stops with
\* its request failed, error_message "Failed to parse form structure", a
\* parser_failed progress event, and no FormAction row.
MissingQuestionsFails ==
    \A r \in DOMAIN rows :
        (task[r].state = "active" /\ task[r].pc # "parse"
            /\ task[r].parser.kind \in {"error", "fields"})
        => (/\ task[r].pc = "exit"
            /\ rows[r].status = "failed"
            /\ rows[r].error_message = ParseFailedMsg
            /\ LastStage(r) = "parser_failed"
            /\ actions[r] = <<>>)

\* C14: when no batch of phase 3 yields an actions list (error result or
\* exception in every batch), the result handed to the pipeline fails its
\* validation, so that the request is failed and not completed.
NoActionsIsPhaseFailure ==
    (generated.state = "returned"
        /\ \A i \in DOMAIN generated.outs : generated.outs[i] # "actions")
    => GeneratorInvalid(generated.keys)

\* The solution texts that start with "Error:".
ErrorSolutions == {InitialSolution, FailedSolution}

\* C15: every question whose solver call raised or returned a non-success
\* result has a solution starting with "Error:" and a progress callback
\* with success = false, and the call returns one entry per question.
FailedQuestionsReportFailure ==
    /\ \A k \in TaskKinds :
          (qtasks[k] > 0 /\ k.pc \in {"reporting", "done"} /\ k.outcome \in {"error", "raised"})
          => (k.solution \in ErrorSolutions /\ ~k.success)
    /\ call.state = "returned" => FinishedCount = call.n

ShutdownLeavesNoneRunning ==
    ~up => \A r \in Requests :
              /\ r \notin registry
              /\ task[r].state # "active"
              /\ (Exists(r) /\ task[r].state # "none")
                 => rows[r].status \in TerminalStatuses

\* C18: at most SemaphoreWidth (10) process_question tasks of one solver
\* call are inside the section the semaphore guards at the same time.
AtMostTenInside == Inside <= SemaphoreWidth

TenInsideOneWaiting ==
    /\ Inside = SemaphoreWidth
    /\ qtasks[Waiting] > 0
    /\ semaphore = 0

\* C19: the progress events list_progress_events returns are in ascending
\* id order, also when events carry the same created_at.
ListedInAppendOrder ==
    \A i, j \in DOMAIN listed.ids : i < j => listed.ids[i] < listed.ids[j]

\* C20: when the solver call was cancelled after exactly k of its tasks had
\* ended, exactly k progress callbacks (solutions_progress events) have
\* been made once the call has ended: the tasks that were in flight or
\* waiting made none.
CancelledReportsOnlyCompleted ==
    call.state = "cancelled" => reported = call.k

\* The action types whose actions need a value.
ValueTypes == {"fillText", "selectDropdown", "selectCheckbox"}

\* The actions of a list that the drop rule of the claim keeps, with their
\* types mapped.
KeptByRule(acts) ==
    SelectSeq([i \in DOMAIN acts |-> [acts[i] EXCEPT !.action_type = map_action_type(@)]],
              LAMBDA a : ~(a.action_type \in ValueTypes /\ a.value = None))

\* C21: the list the save block hands to persistence is the generator's
\* list without exactly the actions whose mapped type is fillText,
\* selectDropdown or selectCheckbox and whose value is null, and no stored
\* row of such a type has a null value.
NullValuedDropped ==
    post.state = "saved"
    => (/\ post.actions_dict = KeptByRule(post.result_actions)
        /\ \A i \in DOMAIN post.actions_dict :
              post.actions_dict[i].action_type \in ValueTypes
              => post.actions_dict[i].value # None
        /\ \A i \in DOMAIN post.stored :
              post.stored[i].action_type \in ValueTypes => post.stored[i].value # None)

NullTextDroppedNullClickKept ==
    /\ post.state = "saved"
    /\ Len(post.result_actions) = 2
    /\ post.result_actions[1].action_type = "setText" /\ post.result_actions[1].value = None
    /\ post.result_actions[2].action_type = "click" /\ post.result_actions[2].value = None
    /\ post.actions_dict = <<post.result_actions[2]>>

\* C22: map_action_type applied to its own result gives that result; the
\* result is one of the five canonical types, a canonical type is mapped to
\* itself, setText and every other input to fillText.
MapActionTypeIdempotent ==
    typed # NothingTyped
    => (/\ typed.twice = typed.once
        /\ typed.once \in CanonicalTypes
        /\ typed.input \in CanonicalTypes => typed.once = typed.input
        /\ typed.input \notin CanonicalTypes => typed.once = "fillText")

UnknownTypeMapped ==
    /\ typed.input = "hover"
    /\ typed.once = "fillText"
    /\ typed.twice = "fillText"

\* The pieces of a selector that name the chosen option.
OptionPieces == {"value=m", "value=f", "value=a", "value=b"}

\* Two selectRadio actions of one labelled question: the same label, and
\* selectors that differ in the chosen option at most.
SameQuestion(a, b) ==
    /\ a.action_type = "selectRadio" /\ b.action_type = "selectRadio"
    /\ a.label # <<>> /\ a.label = b.label
    /\ SelectSeq(a.selector, LAMBDA piece : piece \notin OptionPieces)
       = SelectSeq(b.selector, LAMBDA piece : piece \notin OptionPieces)

\* sub is seq without some of its elements, in seq's order.
RECURSIVE IsSubsequence(_, _)
IsSubsequence(sub, seq) ==
    IF sub = <<>> THEN TRUE
    ELSE IF seq = <<>> THEN FALSE
    ELSE IF Head(sub) = Head(seq) THEN IsSubsequence(Tail(sub), Tail(seq))
    ELSE IsSubsequence(sub, Tail(seq))

\* C23: of the selectRadio actions of one labelled question only one (the
\* last) is in the result of optimize_actions, and the result keeps the
\* order of the input.
RadioKeepsLastOnly ==
    optimized.state = "returned"
    => (/\ \A i, j \in DOMAIN optimized.output :
              i < j => ~SameQuestion(optimized.output[i], optimized.output[j])
        /\ IsSubsequence(optimized.output, optimized.input))

\* C24: the stored FormAction rows of a request are the post-processed
\* actions, each with order_index equal to its position counted from 0.
PersistedInOrder ==
    post.state = "saved"
    => (/\ ~post.raised
        /\ Len(post.stored) = Len(post.actions_dict)
        /\ \A i \in DOMAIN post.stored :
              /\ post.stored[i].order_index = i - 1
              /\ post.stored[i].action_type = post.actions_dict[i].action_type)

NoDuplicates(seq) == \A i, j \in DOMAIN seq : seq[i] = seq[j] => i = j

\* C26: retrieve_relevant_context returns each chunk at most once across
\* text_chunks and image_chunks together, also when the text search and the
\* image search hit the same chunk id.
EachChunkOnce ==
    retrieved.state = "returned"
    => NoDuplicates(retrieved.text_chunks \o retrieved.image_chunks)

HitByBothSearches ==
    /\ retrieved.state = "returned"
    /\ \E id \in retrieved.text_results \cap retrieved.image_results :
          id \in Range(retrieved.image_chunks)

DeletedFileLeavesNoVectors ==
    \A f \in FileIds :
        ingest[f] = "finished" /\ rag_cleanup[f] = "done"
        => \A c \in text_collection \cup image_collection : c.file_id # f

\* C29: after an ingestion, every stored chunk's id is an entry of the text
\* collection, and an entry of the image collection exactly when the chunk
\* is an IMAGE chunk, also when an embedding step failed or the image
\* embedder is unavailable.
ChunksIndexedByType ==
    \A c \in document_chunks :
        ingest[c.file_id] = "finished"
        => (/\ c.id \in ids_of(text_collection)
            /\ (c.id \in ids_of(image_collection) <=> c.chunk_type = "image"))

RECURSIVE AtPositions(_, _, _)
AtPositions(acts, keep, i) ==
    IF i > Len(acts) THEN <<>>
    ELSE (IF i \in keep THEN <<acts[i]>> ELSE <<>>) \o AtPositions(acts, keep, i + 1)

\* Of the actions sharing a triple, the first one.
KeepFirst(acts) ==
    AtPositions(acts, {i \in DOMAIN acts :
                         \A j \in 1 .. (i - 1) : generic_key(acts[j]) # generic_key(acts[i])}, 1)

\* Of the actions sharing a triple, the last one.
KeepLast(acts) ==
    AtPositions(acts, {i \in DOMAIN acts :
                         \A j \in (i + 1) .. Len(acts) : generic_key(acts[j]) # generic_key(acts[i])}, 1)

NoRadio(acts) == \A i \in DOMAIN acts : acts[i].action_type # "selectRadio"

DistinctTriples(acts) ==
    \A i, j \in DOMAIN acts : generic_key(acts[i]) = generic_key(acts[j]) => i = j

\* C38 as stated: the result of optimize_actions is a subsequence of its
\* input in which no two actions share (action_type, trimmed selector,
\* value), and of the input actions sharing a triple the first is kept.
\* The part about which one is kept is read on inputs without selectRadio,
\* where no other rule removes an action.
FirstOfTripleKept ==
    optimized.state = "returned"
    => (/\ IsSubsequence(optimized.output, optimized.input)
        /\ DistinctTriples(optimized.output)
        /\ NoRadio(optimized.input) => optimized.output = KeepFirst(optimized.input))

\* C38 amended: the result is a subsequence of the input without two
\* actions sharing a triple, and of the input actions sharing a triple the
\* last is kept.
LastOfTripleKept ==
    optimized.state = "returned"
    => (/\ IsSubsequence(optimized.output, optimized.input)
        /\ DistinctTriples(optimized.output)
        /\ NoRadio(optimized.input) => optimized.output = KeepLast(optimized.input))

SecondOfTwoKept ==
    /\ optimized.state = "returned"
    /\ Len(optimized.input) = 2
    /\ NoRadio(optimized.input)
    /\ generic_key(optimized.input[1]) = generic_key(optimized.input[2])
    /\ optimized.input[1] # optimized.input[2]
    /\ optimized.output = <<optimized.input[2]>>

\* C31: a delete call for a request id that does not exist or that another
\* user owns answers 404 and changes no row, progress event, action, task
\* or registry entry; a delete call goes on to cancel and delete only for
\* the owner of the row.
ForeignDeleteHasNoEffect ==
    [][\A r \in Requests :
          (del[r].pc = "idle" /\ del'[r] # del[r])
          => \/ /\ del'[r].resp = "404"
                /\ UNCHANGED <<rows, progress, actions, task, registry>>
             \/ /\ del'[r].pc # "idle"
                /\ r \in DOMAIN rows
                /\ rows[r].user = del'[r].user]_vars

\* Another user's delete call was answered 404 while the pipeline runs.
ForeignDeleteRefusedWhileRunning ==
    \E r \in Requests :
        /\ del[r].resp = "404"
        /\ Exists(r)
        /\ r \in registry
        /\ task[r].state = "active" /\ ~task[r].must_cancel

BatchOf(i) == ((i - 1) \div assembly.batch_size) + 1

\* C35: generate_solutions_per_question returns one entry per question,
\* entry i carrying question i and the solution of its own task, and
\* generate_actions_from_solutions returns the actions of the batches that
\* yielded some, batch by batch in index order and in each batch's order,
\* whatever the order in which the tasks ended.
AssembledInIndexOrder ==
    /\ assembly.pc \in {"solved", "generating", "generated"}
       => /\ Len(assembly.results) = assembly.n
          /\ \A i \in 1 .. assembly.n :
                assembly.results[i] = [question |-> i,
                                       solution |-> SolutionText(assembly.solver[i])]
    /\ assembly.pc = "generated"
       => assembly.combined =
             AtPositions([i \in 1 .. assembly.n |-> i],
                         {i \in 1 .. assembly.n : assembly.batch[BatchOf(i)] = "actions"}, 1)

\* Two batches that both yielded actions ended in the reverse of their
\* index order.
LaterBatchEndedFirst ==
    /\ assembly.pc = "generated"
    /\ \E k \in 1 .. (Len(assembly.order) - 1) :
          /\ assembly.order[k] > assembly.order[k + 1]
          /\ assembly.batch[assembly.order[k]] = "actions"
          /\ assembly.batch[assembly.order[k + 1]] = "actions"

RunNeverRaises == agent.pc # "raised"

\* Positions of the model calls in the trace of a run.
Calls == {k \in DOMAIN agent.trace : agent.trace[k] # "sleep"}

\* C37: one call of run calls the model at most max(0, max_retries) + 1
\* times and exactly once when max_retries <= 0, a successful attempt is the
\* last thing it does, every sleep lies between two attempts, and a run
\* that has not ended has an attempt left.
RunAttemptsBounded ==
    LET total == (IF agent.max_retries > 0 THEN agent.max_retries ELSE 0) + 1
    IN  /\ Cardinality(Calls) <= total
        /\ (agent.pc \in {"returned", "raised"} /\ agent.max_retries <= 0)
           => Cardinality(Calls) = 1
        /\ \A k \in DOMAIN agent.trace :
              (agent.trace[k] = "success"
               \/ (agent.variant = "standard" /\ agent.trace[k] = "bad_json"))
              => (k = Len(agent.trace) /\ agent.pc = "returned" /\ agent.result = "success")
        /\ \A k \in DOMAIN agent.trace :
              agent.trace[k] = "sleep"
              => /\ k > 1 /\ agent.trace[k - 1] # "sleep"
                 /\ IF k = Len(agent.trace) THEN agent.pc = "calling"
                    ELSE agent.trace[k + 1] # "sleep"
        /\ agent.pc \in {"calling", "sleeping"} => agent.attempt < total
        /\ agent.pc = "sleeping" => agent.attempt < total - 1

\* A run with the largest max_retries succeeded at its last attempt, with a
\* sleep before every retry.
SucceededAtLastAttempt ==
    /\ agent.pc = "returned" /\ agent.result = "success"
    /\ agent.max_retries = MaxRetries
    /\ Cardinality(Calls) = MaxRetries + 1
    /\ Len(agent.trace) = 2 * MaxRetries + 1

====
